---- MODULE Spec2Model ----
(***************************************************************************)
(* RotatingBuffer<T, S> of src/src/lib.rs as a state machine.              *)
(*                                                                         *)
(* The storage array `inner` is a TLA+ sequence of length S, so the source *)
(* index i is position i + 1 here.  A slice is modelled by the range of    *)
(* storage it views, [start, len], exactly as the range expression in the  *)
(* source selects it; its elements are read with slice_elems.              *)
(*                                                                         *)
(* usize arithmetic keeps its width: W bits.  With overflow checks on (a   *)
(* debug build) an overflowing + or - panics, with overflow checks off (a  *)
(* release build) it wraps modulo 2^W.  Both builds are modelled; the      *)
(* build is fixed in Init.                                                 *)
(*                                                                         *)
(* A panic leaves the buffer as it was at the panic point.  Every call is  *)
(* recorded in `call` with the buffer it was made on, so that a property   *)
(* of a call is a state predicate.                                         *)
(***************************************************************************)
EXTENDS Integers, Sequences, FiniteSets, TLC

\* ------------------------------------------------------------- bounds
\* Capacity of the buffer (the const generic S of RotatingBuffer<T, S>).
S == 3
\* Elements are 0..MaxVal.
MaxVal == 2
\* Width of usize in bits.
W == 3
\* Variant B (overflow-region buffer): primary capacity P, overflow capacity R.
P == 2
R == 1

WordModulus == 2 ^ W
Word == 0 .. (WordModulus - 1)
Val == 0 .. MaxVal

VARIABLES
    inner,            \* self.inner: [T; S]
    inner_length,     \* self.inner_length: usize
    overflow_checks,  \* TRUE: overflowing usize arithmetic panics; FALSE: it wraps
    call,             \* the last call: op, arg, val, the buffer before, panic, ret
    pc,               \* SpecCycle: position in the rotate/write/add_len cycle
    tail,             \* SpecCycle: as_slice()[index..] taken before the rotation
    chunk,            \* SpecCycle: the elements written after the rotation
    ob                \* SpecOverflow: the overflow-region buffer (variant B)

vars == <<inner, inner_length, overflow_checks, call, pc, tail, chunk, ob>>

\* ------------------------------------------------------------- values
\* T::default()
Default == 0

\* what a call returns: () for the methods that return nothing, or a usize
Unit == <<>>
Usize(n) == <<n>>

Buf(i, l) == [inner |-> i, inner_length |-> l]

\* the outcome of a call: the buffer afterwards, whether it panicked, its value
Returned(b, r) == [buf |-> b, panic |-> FALSE, ret |-> r]
Panicked(b) == [buf |-> b, panic |-> TRUE, ret |-> Unit]

\* a + b on usize
usize_add(a, b) ==
    IF a + b < WordModulus THEN [panic |-> FALSE, val |-> a + b]
    ELSE IF overflow_checks THEN [panic |-> TRUE, val |-> 0]
    ELSE [panic |-> FALSE, val |-> (a + b) % WordModulus]

\* a - b on usize
usize_sub(a, b) ==
    IF a >= b THEN [panic |-> FALSE, val |-> a - b]
    ELSE IF overflow_checks THEN [panic |-> TRUE, val |-> 0]
    ELSE [panic |-> FALSE, val |-> (a - b) % WordModulus]

\* ------------------------------------------------------------- slices
Slice(start, len) == [start |-> start, len |-> len]

\* the elements a slice views, in order
slice_elems(i, s) == SubSeq(i, s.start + 1, s.start + s.len)

\* the index taken in storage instead of in the slice (mutant of slice_write)
slice_write_absolute(i, s, j, v) == [i EXCEPT ![j + 1] = v]

\* slice[j] = v, written through to the storage the slice views
slice_write(i, s, j, v) == [i EXCEPT ![s.start + j + 1] = v]

\* a rotation in the wrong direction (mutant of slice_rotate_right)
slice_rotate_left(s, k) ==
    [p \in 1 .. Len(s) |-> s[((p - 1 + k) % Len(s)) + 1]]

\* core::slice::rotate_right on a sequence: the last k elements move to the
\* front, the first Len(s) - k move to the end (k <= Len(s))
slice_rotate_right(s, k) ==
    [p \in 1 .. Len(s) |-> s[((p - 1 + Len(s) - k) % Len(s)) + 1]]

\* ------------------------------------------------------------- methods
\* RotatingBuffer::<T, s>::new()
new_sized(s) == Buf([p \in 1 .. s |-> Default], 0)

new == new_sized(S)

\* the const generic S of the buffer's type: the length of its array
SOf(b) == Len(b.inner)

\* &self.inner[..self.inner_length]
as_slice(b) == Slice(0, b.inner_length)

\* the writable region taken from the start of storage (mutant of get_append_only)
get_append_only_from_start(b) == Slice(0, SOf(b) - b.inner_length)

\* &mut self.inner[self.inner_length..]
get_append_only(b) == Slice(b.inner_length, SOf(b) - b.inner_length)

is_empty(b) == b.inner_length = 0

len(b) == b.inner_length

capacity(b) == SOf(b)

\* resize without its assertion (mutant of resize)
resize_unchecked(b, new_len) == Returned(Buf(b.inner, new_len), Unit)

\* the assertion off by one, new_len < S (mutant of resize)
resize_below_capacity(b, new_len) ==
    IF new_len < SOf(b)
    THEN Returned(Buf(b.inner, new_len), Unit)
    ELSE Panicked(b)

\* assert!(new_len <= S); self.inner_length = new_len;
resize(b, new_len) ==
    IF new_len <= SOf(b)
    THEN Returned(Buf(b.inner, new_len), Unit)
    ELSE Panicked(b)

\* add_len that sets the length to its argument (mutant of add_len)
add_len_replaces(b, new_len) ==
    LET r == resize(b, new_len) IN
    IF r.panic THEN r ELSE Returned(r.buf, Usize(r.buf.inner_length))

\* self.resize(self.inner_length + new_len); self.inner_length
add_len(b, new_len) ==
    LET sum == usize_add(b.inner_length, new_len) IN
    IF sum.panic THEN Panicked(b)
    ELSE LET r == resize(b, sum.val) IN
         IF r.panic THEN r ELSE Returned(r.buf, Usize(r.buf.inner_length))

\* the rotation without the length update (mutant of rotate_right_and_resize)
rotate_right_keeps_length(b, k) ==
    LET n == b.inner_length IN
    IF k > n
    THEN Panicked(b)
    ELSE Returned(
            Buf(slice_rotate_right(SubSeq(b.inner, 1, n), k)
                    \o SubSeq(b.inner, n + 1, SOf(b)),
                n),
            Unit)

\* the length set before the rotation is attempted (mutant of
\* rotate_right_and_resize): the panic of rotate_right then comes too late
resize_then_rotate_right(b, k) ==
    LET n == b.inner_length IN
    IF k > n
    THEN Panicked(Buf(b.inner, k))
    ELSE Returned(
            Buf(slice_rotate_right(SubSeq(b.inner, 1, n), k)
                    \o SubSeq(b.inner, n + 1, SOf(b)),
                k),
            Unit)

\* the tail copied to the front instead of rotated there (mutant of
\* rotate_right_and_resize)
copy_tail_and_resize(b, k) ==
    LET n == b.inner_length IN
    IF k > n
    THEN Panicked(b)
    ELSE Returned(
            Buf(SubSeq(b.inner, n - k + 1, n) \o SubSeq(b.inner, k + 1, SOf(b)), k),
            Unit)

\* the whole array rotated instead of the valid region (mutant of
\* rotate_right_and_resize)
rotate_storage_and_resize(b, k) ==
    LET n == b.inner_length IN
    IF k > n
    THEN Panicked(b)
    ELSE Returned(Buf(slice_rotate_right(b.inner, k), k), Unit)

\* self.inner[..self.inner_length].rotate_right(k); self.inner_length = k;
rotate_right_and_resize(b, k) ==
    LET n == b.inner_length IN
    IF k > n
    THEN Panicked(b)
    ELSE Returned(
            Buf(slice_rotate_right(SubSeq(b.inner, 1, n), k)
                    \o SubSeq(b.inner, n + 1, SOf(b)),
                k),
            Unit)

\* the index passed on as the length to retain (mutant of
\* rotate_right_and_resize_at)
rotate_right_and_resize_at_as_length(b, index) ==
    rotate_right_and_resize(b, index)

\* a saturating subtraction (mutant of rotate_right_and_resize_at)
rotate_right_and_resize_at_saturating(b, index) ==
    rotate_right_and_resize(
        b, IF index > b.inner_length THEN 0 ELSE b.inner_length - index)

\* self.rotate_right_and_resize(self.inner_length - index);
rotate_right_and_resize_at(b, index) ==
    LET k == usize_sub(b.inner_length, index) IN
    IF k.panic THEN Panicked(b) ELSE rotate_right_and_resize(b, k.val)

\* ------------------------------------------------ variant B (spec 4.2)
\* The overflow-region buffer, as spec.md section 4.2 describes it: storage of
\* P + R elements, the logical length and the overflow length.
OBuf(i, l, o) == [inner |-> i, inner_length |-> l, overflow_length |-> o]

ob_new == OBuf([p \in 1 .. (P + R) |-> Default], 0, 0)

\* P elements, offset by overflow_length into storage
ob_writable_region(b) == Slice(b.overflow_length, P)

\* n <= P, else fatal; inner_length = overflow_length + n; overflow_length = 0
ob_set_length(b, n) ==
    IF n <= P
    THEN Returned(OBuf(b.inner, b.overflow_length + n, 0), Unit)
    ELSE Panicked(b)

\* overflow_at that retains whatever it is asked to (mutant of ob_overflow_at)
ob_overflow_at_unchecked(b, index) ==
    IF index > b.inner_length
    THEN Panicked(b)
    ELSE LET k == b.inner_length - index IN
         Returned(
            OBuf([p \in 1 .. (P + R) |->
                    IF p <= k THEN b.inner[index + p] ELSE Default], k, k),
            Unit)

\* index <= inner_length and k = inner_length - index <= R, else fatal; the k
\* retained elements go to the front of a zeroed storage block;
\* overflow_length = k; inner_length = k
ob_overflow_at(b, index) ==
    IF index > b.inner_length
    THEN Panicked(b)
    ELSE LET k == b.inner_length - index IN
         IF k > R
         THEN Panicked(b)
         ELSE Returned(
                OBuf([p \in 1 .. (P + R) |->
                        IF p <= k THEN b.inner[index + p] ELSE Default], k, k),
                Unit)

\* ------------------------------------------------------------- the API
self == Buf(inner, inner_length)

Called(op, arg, val, r) ==
    [op |-> op, arg |-> arg, val |-> val, pre |-> self,
     panic |-> r.panic, ret |-> r.ret]

Apply(op, arg, val, r) ==
    /\ inner' = r.buf.inner
    /\ inner_length' = r.buf.inner_length
    /\ call' = Called(op, arg, val, r)
    /\ UNCHANGED <<overflow_checks, pc, tail, chunk, ob>>

Init ==
    /\ inner = new.inner
    /\ inner_length = new.inner_length
    /\ overflow_checks \in BOOLEAN
    /\ call = [op |-> "new", arg |-> 0, val |-> 0, pre |-> new,
               panic |-> FALSE, ret |-> Unit]
    /\ pc = "api"
    /\ tail = <<>>
    /\ chunk = <<>>
    /\ ob = ob_new

\* buf.get_append_only()[j] = v
WriteAppend ==
    \E j \in 0 .. (S - 1), v \in Val :
        LET w == get_append_only(self) IN
        /\ j < w.len
        /\ Apply("write", j, v,
                 Returned(Buf(slice_write(inner, w, j, v), inner_length), Unit))

\* buf.resize(n)
Resize ==
    \E n \in Word :
        LET r == resize(self, n) IN
        /\ Apply("resize", n, 0, r)

\* buf.add_len(n)
AddLen ==
    \E n \in Word :
        LET r == add_len(self, n) IN
        /\ Apply("add_len", n, 0, r)

\* buf.rotate_right_and_resize(k)
RotateRightAndResize ==
    \E k \in Word :
        LET r == rotate_right_and_resize(self, k) IN
        /\ Apply("rotate_right_and_resize", k, 0, r)

\* buf.rotate_right_and_resize_at(index)
RotateRightAndResizeAt ==
    \E index \in Word :
        LET r == rotate_right_and_resize_at(self, index) IN
        /\ Apply("rotate_right_and_resize_at", index, 0, r)

\* the methods that take &self (and get_append_only() with nothing written
\* through it): each returns its value and assigns nothing
Observed(op) ==
    CASE op = "as_slice" -> as_slice(self)
      [] op = "get_append_only" -> get_append_only(self)
      [] op = "len" -> len(self)
      [] op = "is_empty" -> is_empty(self)
      [] op = "capacity" -> capacity(self)

Observers == {"as_slice", "get_append_only", "len", "is_empty", "capacity"}

Observe ==
    \E op \in Observers :
        LET r == Returned(self, <<Observed(op)>>) IN
        /\ Apply(op, 0, 0, r)

Next ==
    \/ Observe
    \/ WriteAppend
    \/ Resize
    \/ AddLen
    \/ RotateRightAndResize
    \/ RotateRightAndResizeAt

Spec == Init /\ [][Next]_vars

\* ------------------------------------------------- the consume cycle
\* The use the crate documents (doc-test of the crate, examples/read_to_eof.rs):
\* rotate at an index, write a chunk at the start of get_append_only(), report
\* its length with add_len, and again.

\* the elements of as_slice()
contents(b) == slice_elems(b.inner, as_slice(b))

\* slice[..Len(d)].copy_from_slice(d), written through to storage
slice_copy_from(i, s, d) ==
    [p \in 1 .. Len(i) |->
        IF p > s.start /\ p <= s.start + Len(d) THEN d[p - s.start] ELSE i[p]]

InitCycle ==
    /\ inner = new.inner
    /\ inner_length = new.inner_length
    /\ overflow_checks \in BOOLEAN
    /\ call = [op |-> "new", arg |-> 0, val |-> 0, pre |-> new,
               panic |-> FALSE, ret |-> Unit]
    /\ pc = "rotate"
    /\ tail = <<>>
    /\ chunk = <<>>
    /\ ob = ob_new

CycleRotate ==
    /\ pc = "rotate"
    /\ \E index \in 0 .. inner_length :
          LET r == rotate_right_and_resize_at(self, index) IN
          /\ inner' = r.buf.inner
          /\ inner_length' = r.buf.inner_length
          /\ call' = Called("rotate_right_and_resize_at", index, 0, r)
          /\ tail' = SubSeq(contents(self), index + 1, inner_length)
          /\ chunk' = <<>>
          /\ pc' = IF r.panic THEN "panicked" ELSE "write"
    /\ UNCHANGED <<overflow_checks, ob>>

CycleWrite ==
    /\ pc = "write"
    /\ \E m \in 0 .. S :
          /\ m <= get_append_only(self).len
          /\ \E d \in [1 .. m -> Val] :
                /\ inner' = slice_copy_from(inner, get_append_only(self), d)
                /\ chunk' = d
                /\ call' = Called("write", m, 0, Returned(self, Unit))
    /\ pc' = "add_len"
    /\ UNCHANGED <<inner_length, overflow_checks, tail, ob>>

CycleAddLen ==
    /\ pc = "add_len"
    /\ LET r == add_len(self, Len(chunk)) IN
       /\ inner' = r.buf.inner
       /\ inner_length' = r.buf.inner_length
       /\ call' = Called("add_len", Len(chunk), 0, r)
       /\ pc' = IF r.panic THEN "panicked" ELSE "rotate"
    /\ UNCHANGED <<overflow_checks, tail, chunk, ob>>

NextCycle ==
    \/ CycleRotate
    \/ CycleWrite
    \/ CycleAddLen

SpecCycle == InitCycle /\ [][NextCycle]_vars

\* ------------------------------------------- examples/read_to_eof.rs
\* main(): the loop that reads from the stream into get_append_only(), reports
\* the bytes read with add_len, prints the comma separated values and rotates
\* behind the last comma.  Bytes are their ASCII codes.  A read is followed
\* byte by byte (`chunk` holds what the call has written so far); it may
\* return after any number of bytes the slice has room for.  The loop keeps no
\* record in `call`: a call that panics ends it at pc = "panicked".

\* RotatingBuffer::<u8, 5>
ExampleS == 5

\* b','
Comma == 44

\* "EOF\n"
EofMarker == <<69, 79, 70, 10>>

\* the bytes a stream carries here: '\n', ',', 'E', 'F', 'O'
Bytes == {10, 44, 69, 70, 79}

\* Option<usize>
None == <<>>
Some(i) == <<i>>

\* str::ends_with
ends_with(s, suffix) ==
    /\ Len(s) >= Len(suffix)
    /\ SubSeq(s, Len(s) - Len(suffix) + 1, Len(s)) = suffix

\* str::rfind: the index of the last occurrence of byte c
rfind(s, c) ==
    LET at == {i \in 0 .. (Len(s) - 1) : s[i + 1] = c} IN
    IF at = {} THEN None
    ELSE Some(CHOOSE i \in at : \A j \in at : j <= i)

\* the loop's condition without `&& read_size != 0` (mutant of ex_continues)
ex_continues_on_empty_read(b, read_size) ==
    LET incoming == slice_elems(b.inner, as_slice(b)) IN
    \/ ~ends_with(incoming, EofMarker)
    \/ Len(incoming) > 4

\* !incoming.ends_with("EOF\n") && read_size != 0 || incoming.len() > 4
ex_continues(b, read_size) ==
    LET incoming == slice_elems(b.inner, as_slice(b)) IN
    \/ (~ends_with(incoming, EofMarker) /\ read_size # 0)
    \/ Len(incoming) > 4

\* the rotation at the comma itself, keeping it (mutant of ex_consume)
ex_consume_at_comma(b) ==
    LET incoming == slice_elems(b.inner, as_slice(b))
        found == rfind(incoming, Comma)
    IN IF found # None
       THEN [op |-> "rotate_right_and_resize_at", arg |-> found[1],
             r |-> rotate_right_and_resize_at(b, found[1])]
       ELSE [op |-> "resize", arg |-> 0, r |-> resize(b, 0)]

\* if let Some(index) = incoming.rfind(',') { buf.rotate_right_and_resize_at(
\* index + 1) } else { buf.resize(0) }: the call made and its outcome
ex_consume(b) ==
    LET incoming == slice_elems(b.inner, as_slice(b))
        found == rfind(incoming, Comma)
    IN IF found # None
       THEN [op |-> "rotate_right_and_resize_at", arg |-> found[1] + 1,
             r |-> rotate_right_and_resize_at(b, found[1] + 1)]
       ELSE [op |-> "resize", arg |-> 0, r |-> resize(b, 0)]

InitExample ==
    /\ inner = new_sized(ExampleS).inner
    /\ inner_length = new_sized(ExampleS).inner_length
    /\ overflow_checks \in BOOLEAN
    /\ call = [op |-> "new", arg |-> 0, val |-> 0, pre |-> new_sized(ExampleS),
               panic |-> FALSE, ret |-> Unit]
    /\ pc = "read"
    /\ tail = <<>>
    /\ chunk = <<>>
    /\ ob = ob_new

\* stream.read(buf.get_append_only()): one more byte lands in the slice
ExReadByte ==
    /\ pc = "read"
    /\ LET w == get_append_only(self) IN
       /\ Len(chunk) < w.len
       /\ \E byte \in Bytes :
             /\ inner' = slice_write(inner, w, Len(chunk), byte)
             /\ chunk' = Append(chunk, byte)
    /\ UNCHANGED <<inner_length, overflow_checks, call, pc, tail, ob>>

\* read returns read_size != 0: buf.add_len(read_size)
ExReadSome ==
    /\ pc = "read"
    /\ Len(chunk) # 0
    /\ LET r == add_len(self, Len(chunk)) IN
       /\ inner' = r.buf.inner
       /\ inner_length' = r.buf.inner_length
       /\ pc' = IF r.panic THEN "panicked" ELSE "check"
    /\ UNCHANGED <<overflow_checks, call, tail, chunk, ob>>

\* read returns 0: add_len is skipped
ExReadZero ==
    /\ pc = "read"
    /\ Len(chunk) = 0
    /\ pc' = "check"
    /\ UNCHANGED <<inner, inner_length, overflow_checks, call, tail, chunk, ob>>

\* read returns an error: `?` returns it from main
ExReadErr ==
    /\ pc = "read"
    /\ pc' = "done"
    /\ UNCHANGED <<inner, inner_length, overflow_checks, call, tail, chunk, ob>>

\* the condition holds: rotate behind the last comma, or drop everything
ExConsume ==
    /\ pc = "check"
    /\ ex_continues(self, Len(chunk))
    /\ LET c == ex_consume(self) IN
       /\ inner' = c.r.buf.inner
       /\ inner_length' = c.r.buf.inner_length
       /\ pc' = IF c.r.panic THEN "panicked" ELSE "read"
    /\ chunk' = <<>>
    /\ UNCHANGED <<overflow_checks, call, tail, ob>>

\* the condition fails: return Ok(())
ExReturn ==
    /\ pc = "check"
    /\ ~ex_continues(self, Len(chunk))
    /\ pc' = "done"
    /\ UNCHANGED <<inner, inner_length, overflow_checks, call, tail, chunk, ob>>

NextExample ==
    \/ ExReadByte
    \/ ExReadSome
    \/ ExReadZero
    \/ ExReadErr
    \/ ExConsume
    \/ ExReturn

SpecExample == InitExample /\ [][NextExample]_vars

\* The example as `cargo run --example read_to_eof` builds it (the dev
\* profile, overflow checks on).
InitExampleDev ==
    /\ InitExample
    /\ overflow_checks

\* The loop keeps running while it can, and the stream reports its end at
\* some time: a read that may return 0 again and again does return 0.
SpecExampleFair ==
    /\ InitExampleDev
    /\ [][NextExample]_vars
    /\ WF_vars(NextExample)
    /\ SF_vars(ExReadZero)

\* ---------------------------------------------- variant B as a machine
OCalled(op, arg, val, r) ==
    [op |-> op, arg |-> arg, val |-> val,
     pre |-> Buf(ob.inner, ob.inner_length),
     panic |-> r.panic, ret |-> r.ret]

OApply(op, arg, val, r) ==
    /\ ob' = r.buf
    /\ call' = OCalled(op, arg, val, r)
    /\ UNCHANGED <<inner, inner_length, overflow_checks, pc, tail, chunk>>

InitOverflow ==
    /\ inner = new.inner
    /\ inner_length = new.inner_length
    /\ overflow_checks \in BOOLEAN
    /\ call = [op |-> "new", arg |-> 0, val |-> 0,
               pre |-> Buf(ob_new.inner, ob_new.inner_length),
               panic |-> FALSE, ret |-> Unit]
    /\ pc = "overflow"
    /\ tail = <<>>
    /\ chunk = <<>>
    /\ ob = ob_new

\* writable_region()[j] = v
OverflowWrite ==
    \E j \in 0 .. (P - 1), v \in Val :
        LET w == ob_writable_region(ob) IN
        /\ j < w.len
        /\ w.start + j < Len(ob.inner)
        /\ OApply("write", j, v,
                  Returned([ob EXCEPT !.inner = slice_write(ob.inner, w, j, v)],
                           Unit))

OverflowSetLength ==
    \E n \in 0 .. (P + 1) :
        LET r == ob_set_length(ob, n) IN
        /\ OApply("set_length", n, 0, r)

OverflowAt ==
    \E index \in 0 .. (P + R + 1) :
        LET r == ob_overflow_at(ob, index) IN
        /\ OApply("overflow_at", index, 0, r)

NextOverflow ==
    \/ OverflowWrite
    \/ OverflowSetLength
    \/ OverflowAt

SpecOverflow == InitOverflow /\ [][NextOverflow]_vars

\* ------------------------------------------------------------- claims
pre == call.pre

Rotated == call.op \in {"rotate_right_and_resize", "rotate_right_and_resize_at"}

\* C1: in every state reached from new() by resize, add_len, the two rotations
\* and writes through get_append_only, 0 <= len() <= capacity() = S (and the
\* storage keeps its S elements).
C1_LengthWithinCapacity ==
    /\ len(self) \in 0 .. S
    /\ len(self) <= capacity(self)
    /\ capacity(self) = S
    /\ Len(inner) = S

\* C1 witness: add_len has filled the buffer to its capacity.
C1_Witness ==
    /\ call.op = "add_len"
    /\ ~call.panic
    /\ call.arg > 0
    /\ len(self) = S

\* C2: rotate_right_and_resize_at(index) with index <= len() succeeds, leaves
\* len() = old len() - index and as_slice() = old as_slice()[index..], in order.
C2_RotateAtKeepsTail ==
    (call.op = "rotate_right_and_resize_at" /\ call.arg <= len(pre)) =>
        /\ ~call.panic
        /\ len(self) = len(pre) - call.arg
        /\ contents(self) = SubSeq(contents(pre), call.arg + 1, len(pre))

\* C2 witness: a rotation of a full buffer that consumed some and retained at
\* least two elements that differ, so that their order shows.
C2_Witness ==
    /\ call.op = "rotate_right_and_resize_at"
    /\ ~call.panic
    /\ call.arg > 0
    /\ len(pre) = S
    /\ len(self) >= 2
    /\ inner[1] # inner[2]
    /\ pre.inner[1] # inner[1]

\* C3: get_append_only().len() + len() = capacity() and the writable region is
\* storage[len()..S]; right after a rotation that retained k elements it has
\* S - k elements and starts at offset k.
C3_WritableRegion ==
    LET w == get_append_only(self) IN
    /\ w.len + len(self) = capacity(self)
    /\ w.start = len(self)
    /\ w.start + w.len = S
    /\ slice_elems(inner, w) = SubSeq(inner, inner_length + 1, S)
    /\ (Rotated /\ ~call.panic) =>
          LET k == IF call.op = "rotate_right_and_resize"
                   THEN call.arg ELSE len(pre) - call.arg
          IN w = Slice(k, S - k)

\* C3 witness: a rotation has retained some elements and left room to write.
C3_Witness ==
    /\ Rotated
    /\ ~call.panic
    /\ len(self) > 0
    /\ len(self) < len(pre)
    /\ get_append_only(self).len > 0

\* C4: after rotate_right_and_resize_at(index), a write of a chunk at the start
\* of get_append_only() and add_len of the chunk's length, as_slice() is the
\* retained tail followed by the chunk; in every cycle.
C4_TailThenChunk ==
    (pc = "rotate" /\ call.op = "add_len") =>
        /\ ~call.panic
        /\ contents(self) = tail \o chunk
        /\ len(self) = Len(tail) + Len(chunk)

\* C4 witness: a cycle that retained a tail and appended a chunk, after an
\* earlier cycle.
C4_Witness ==
    /\ pc = "rotate"
    /\ call.op = "add_len"
    /\ Len(tail) > 0
    /\ Len(chunk) > 1
    /\ tail[1] # chunk[1]
    /\ chunk[1] # chunk[2]

\* C5: add_len(n) with len() + n > S and resize(n) with n > S panic and leave
\* len(), as_slice() and the whole storage array as they were.
C5_FailedLengthCallsChangeNothing ==
    ((call.op = "add_len" /\ len(pre) + call.arg > S)
        \/ (call.op = "resize" /\ call.arg > S)) =>
        /\ call.panic
        /\ len(self) = len(pre)
        /\ contents(self) = contents(pre)
        /\ inner = pre.inner

\* C6: add_len never wraps: whenever the mathematical sum len() + n exceeds S
\* the call fails, also when the sum reaches 2^W; a call that succeeds leaves
\* the mathematical sum as the length.
C6_AddLenNeverWraps ==
    call.op = "add_len" =>
        /\ (len(pre) + call.arg > S => call.panic)
        /\ (~call.panic => len(self) = len(pre) + call.arg)

\* C7: rotate_right_and_resize_at(index) with index > len() panics, for every
\* usize index, and leaves len() and the storage array unchanged, whether the
\* subtraction traps or wraps; a wrapped k is greater than len().
C7_RotateAtBeyondLengthFails ==
    /\ (call.op = "rotate_right_and_resize_at" /\ call.arg > len(pre)) =>
          /\ call.panic
          /\ len(self) = len(pre)
          /\ inner = pre.inner
    /\ \A index \in Word :
          (index > len(self) /\ ~usize_sub(len(self), index).panic) =>
              usize_sub(len(self), index).val > len(self)

\* C7 witness: the call with an index beyond the length, in the build whose
\* subtraction wraps.
C7_Witness ==
    /\ call.op = "rotate_right_and_resize_at"
    /\ call.arg > len(pre)
    /\ ~overflow_checks
    /\ call.panic
    /\ len(pre) > 0

\* C8: rotate_right_and_resize(k) with k > len() panics without setting the
\* length to k or permuting storage; no rotation raises len().
C8_RotateBeyondLengthFails ==
    /\ (call.op = "rotate_right_and_resize" /\ call.arg > len(pre)) =>
          /\ call.panic
          /\ len(self) = len(pre)
          /\ len(self) # call.arg
          /\ inner = pre.inner
    /\ Rotated => len(self) <= len(pre)

\* C8 witness: asked to retain more than is valid, though no more than the
\* capacity, on a buffer with content.
C8_Witness ==
    /\ call.op = "rotate_right_and_resize"
    /\ call.arg > len(pre)
    /\ call.arg <= S
    /\ len(pre) > 0
    /\ call.panic

\* C9: rotate_right_and_resize_at(len()) leaves len() = 0, is_empty(), an empty
\* as_slice() and a writable region at offset 0 over all S elements; applied
\* again in that state it changes nothing.
C9_RotateAtLengthEmpties ==
    /\ (call.op = "rotate_right_and_resize_at" /\ call.arg = len(pre)) =>
          /\ ~call.panic
          /\ len(self) = 0
          /\ is_empty(self)
          /\ contents(self) = <<>>
          /\ get_append_only(self) = Slice(0, S)
          /\ (len(pre) = 0 => self = pre)
    /\ LET once == rotate_right_and_resize_at(self, len(self))
           twice == rotate_right_and_resize_at(once.buf, len(once.buf))
       IN /\ ~once.panic
          /\ ~twice.panic
          /\ twice.buf = once.buf

\* C9 witness: everything of a non-empty buffer was consumed.
C9_Witness ==
    /\ call.op = "rotate_right_and_resize_at"
    /\ call.arg = len(pre)
    /\ len(pre) > 1
    /\ ~call.panic

\* C10: add_len(n) with len() + n <= S raises len() by exactly n, returns the
\* new len() and leaves every storage element unchanged.
C10_AddLenAdds ==
    (call.op = "add_len" /\ len(pre) + call.arg <= S) =>
        /\ ~call.panic
        /\ len(self) = len(pre) + call.arg
        /\ call.ret = Usize(len(self))
        /\ inner = pre.inner

\* C10 witness: a length added to a buffer that already held elements.
C10_Witness ==
    /\ call.op = "add_len"
    /\ ~call.panic
    /\ len(pre) > 0
    /\ call.arg > 0
    /\ inner[1] # Default

\* C11: resize(n) with n <= S sets len() to exactly n whatever the length or
\* retained tail before, the writable region then starts at index n, and no
\* storage element changes.
C11_ResizeSetsLength ==
    (call.op = "resize" /\ call.arg <= S) =>
        /\ ~call.panic
        /\ len(self) = call.arg
        /\ get_append_only(self) = Slice(call.arg, S - call.arg)
        /\ inner = pre.inner

\* C11 witness: resize to the full capacity of a buffer that held a shorter,
\* non-empty content.
C11_Witness ==
    /\ call.op = "resize"
    /\ ~call.panic
    /\ call.arg = S
    /\ len(pre) > 0
    /\ len(pre) < S
    /\ inner[1] # Default

\* C13: the rotation is a rotation, not a copy: after
\* rotate_right_and_resize_at(index) on a buffer of length L, with k = L - index,
\* storage[k..L) is the old storage[0..index) in order, and storage[0..L) holds
\* the same elements as before, as many times each.
C13_RotationMovesPrefixBehindTail ==
    (call.op = "rotate_right_and_resize_at" /\ call.arg <= len(pre)) =>
        LET L == len(pre)
            k == L - call.arg
        IN /\ ~call.panic
           /\ SubSeq(inner, k + 1, L) = SubSeq(pre.inner, 1, call.arg)
           /\ \A v \in Val :
                 Cardinality({p \in 1 .. L : inner[p] = v})
                     = Cardinality({p \in 1 .. L : pre.inner[p] = v})

\* C13 witness: a rotation that consumed a prefix and retained a tail that
\* differ from each other.
C13_Witness ==
    /\ call.op = "rotate_right_and_resize_at"
    /\ ~call.panic
    /\ call.arg > 0
    /\ call.arg < len(pre)
    /\ len(pre) = S
    /\ pre.inner[1] # pre.inner[S]
    /\ inner # pre.inner

\* C14: a successful rotation leaves every storage element at a position in
\* [L, S) unchanged, L being len() before the call.
C14_RotationKeepsSpareStorage ==
    (Rotated /\ ~call.panic) =>
        \A p \in (len(pre) + 1) .. S : inner[p] = pre.inner[p]

\* C14 witness: a rotation that moved elements while storage beyond the valid
\* region held an element of its own.
C14_Witness ==
    /\ Rotated
    /\ ~call.panic
    /\ len(pre) = S - 1
    /\ inner # pre.inner
    /\ inner[S] # Default
    /\ inner[S] # inner[1]

\* C16: rotate_right_and_resize_at(i) followed by rotate_right_and_resize_at(j),
\* with i <= len() and j <= len() - i, gives the same len() and as_slice() as
\* rotate_right_and_resize_at(i + j).
C16_RotationsCompose ==
    \A i \in 0 .. len(self) :
        \A j \in 0 .. (len(self) - i) :
            LET first == rotate_right_and_resize_at(self, i)
                second == rotate_right_and_resize_at(first.buf, j)
                single == rotate_right_and_resize_at(self, i + j)
            IN /\ ~first.panic
               /\ ~second.panic
               /\ ~single.panic
               /\ len(second.buf) = len(single.buf)
               /\ contents(second.buf) = contents(single.buf)

\* C16 witness: a state in which two rotations and the single one leave the
\* same non-empty content but a different storage array.
C16_Witness ==
    \E i \in 1 .. len(self) :
        \E j \in 1 .. (len(self) - i) :
            LET first == rotate_right_and_resize_at(self, i)
                second == rotate_right_and_resize_at(first.buf, j)
                single == rotate_right_and_resize_at(self, i + j)
            IN /\ len(single.buf) > 0
               /\ second.buf.inner # single.buf.inner
               /\ contents(self)[1] # contents(single.buf)[1]

\* C17: rotate_right_and_resize_at(0), and rotate_right_and_resize(len()),
\* leave len(), as_slice() and the whole storage array unchanged.
C17_ConsumingNothingChangesNothing ==
    ((call.op = "rotate_right_and_resize_at" /\ call.arg = 0)
        \/ (call.op = "rotate_right_and_resize" /\ call.arg = len(pre))) =>
        /\ ~call.panic
        /\ len(self) = len(pre)
        /\ contents(self) = contents(pre)
        /\ inner = pre.inner

\* C17 witness: nothing consumed of a full buffer whose elements differ.
C17_Witness ==
    /\ call.op = "rotate_right_and_resize_at"
    /\ call.arg = 0
    /\ ~call.panic
    /\ len(pre) = S
    /\ inner[1] # inner[S]

\* C15: a write through get_append_only() changes only a storage position at or
\* after len(), so len() and as_slice() stay as they were; as_slice(), len(),
\* is_empty(), capacity() and taking get_append_only() change no state.
C15_WritesStayOutsideContent ==
    /\ call.op = "write" =>
          /\ len(self) = len(pre)
          /\ contents(self) = contents(pre)
          /\ \A p \in 1 .. S :
                inner[p] # pre.inner[p] => p = len(pre) + call.arg + 1
          /\ inner[len(pre) + call.arg + 1] = call.val
    /\ call.op \in Observers =>
          /\ ~call.panic
          /\ self = pre

\* C15 witness: an element written behind a non-empty content.
C15_Witness ==
    /\ call.op = "write"
    /\ len(pre) > 0
    /\ call.arg > 0
    /\ inner # pre.inner
    /\ pre.inner[1] # Default

\* C12: variant B: in every reachable state writable_region() is a slice of
\* storage of exactly P elements, whatever the last overflow_at retained
\* (0..R elements): after an overflow_at that retained k it is storage[k..k+P).
C12_WritableRegionIsPrimary ==
    LET w == ob_writable_region(ob) IN
    /\ w.len = P
    /\ w.start + w.len <= Len(ob.inner)
    /\ Len(slice_elems(ob.inner, w)) = P
    /\ ob.overflow_length \in 0 .. R
    /\ (call.op = "overflow_at" /\ ~call.panic) =>
          w = Slice(len(pre) - call.arg, P)

\* C12 witness: overflow_at has filled the overflow region with retained
\* elements.
C12_Witness ==
    /\ call.op = "overflow_at"
    /\ ~call.panic
    /\ call.arg > 0
    /\ ob.overflow_length = R
    /\ ob.inner[1] # Default

\* C18: in the read_to_eof loop every buffer call meets its precondition
\* (add_len stays within the capacity, rotate_right_and_resize_at gets
\* index + 1 <= len()) and no call panics; at the start of every iteration
\* len() <= S - 1, so the slice handed to read is not empty.
C18_LoopCallsMeetPreconditions ==
    /\ pc # "panicked"
    /\ pc = "read" => len(self) + Len(chunk) <= capacity(self)
    /\ (pc = "read" /\ chunk = <<>>) =>
          /\ len(self) <= ExampleS - 1
          /\ get_append_only(self).len >= 1
    /\ (pc = "check" /\ ex_continues(self, Len(chunk))) =>
          LET c == ex_consume(self) IN
          c.op = "rotate_right_and_resize_at" => c.arg <= len(self)

\* C18 witness: an iteration starts with four bytes retained behind a comma
\* that was the first byte of a full buffer.
C18_Witness ==
    /\ pc = "read"
    /\ chunk = <<>>
    /\ len(self) = ExampleS - 1
    /\ inner[ExampleS] = Comma
    /\ ~overflow_checks

\* C19: an iteration in which read returns 0 returns from the loop without
\* rotating, resizing or reading again, and when the stream eventually reports
\* its end the program finishes.
C19_EndOfStreamEndsLoop ==
    /\ [][(pc = "check" /\ chunk = <<>>) =>
            (pc' = "done" /\ inner' = inner /\ inner_length' = inner_length)]_vars
    /\ [](pc = "check" /\ chunk = <<>> => ~ex_continues(self, 0))
    /\ <>(pc = "done")

\* C19 witness: read has returned 0 while the buffer holds a retained tail.
C19_Witness ==
    /\ pc = "check"
    /\ chunk = <<>>
    /\ len(self) > 1
    /\ ~ends_with(contents(self), EofMarker)

====
